---- MODULE Spec2Model ----
(***************************************************************************)
(* Launch-time viewport negotiation of the Telegram mini-app wrapper       *)
(* (src/telegram.js, class TelegramWebApp).                                *)
(*                                                                         *)
(* The host object window.Telegram.WebApp is the environment: its shape    *)
(* (platform, version, which operations exist) is fixed for a launch, its  *)
(* isFullscreen flag and its listener registry change while the page runs. *)
(* The wrapper is single-threaded JavaScript: the constructor (init and    *)
(* setOptimalViewportMode), every event handler, the safety-timer callback *)
(* and every public wrapper run to completion, one action each.            *)
(*                                                                         *)
(* The same page also runs the application class App (src/unnamed/part_000:*)
(* device and platform detection, launch of the authentication), and       *)
(* src/unnamed/part_001 holds two older variants of TelegramWebApp.        *)
(***************************************************************************)
EXTENDS Naturals, Sequences, FiniteSets

VARIABLES
    tg,            \* window.Telegram.WebApp: shape of the host object (fixed per launch)
    isFullscreen,  \* tg.isFullscreen, written by the host only
    listeners,     \* event names with a handler of this launch in the host's registry
    pc,            \* "start" before `new TelegramWebApp()`, "running" after it returned
    webApp,        \* this.webApp: "null" or "tg"
    isInitialized, \* this.isInitialized
    fellBack,      \* the closure flag `fellBack` of setOptimalViewportMode
    timer,         \* the setTimeout of line 261: unarmed / armed / what it saw when it fired
    uncaught,      \* who let an exception escape to its caller: "launch" (the
                   \*   constructor), "manual" (a public wrapper)
    log,           \* adapter calls made so far, in order, each tagged with who made it
    reportedActive,\* the host emitted fullscreenChanged with isFullscreen = TRUE
    reportedInTime,\* ... and it did so while the safety timer was still pending
    droppedAfter,  \* isFullscreen went back to FALSE after such a report
    failSeen,      \* a fullscreenFailed event reached onFail
    requestThrew,  \* the launch call of tg.requestFullscreen raised
    failEmitted,   \* the host emitted fullscreenFailed while that call was running
    hostEvents,    \* number of events the host emitted after the launch
    manualOps,     \* number of public wrapper calls made by the app after the launch
    impl,          \* which TelegramWebApp class the page loaded: "current" (telegram.js)
                   \*   or "variant1" / "variant2" (first / second class of part_001)
    v1FailHandlers,\* anonymous fullscreenFailed handlers registered by the loaded
                   \*   part_001 variant
    userAgent,     \* navigator.userAgent, as the sequence of its significant tokens
    innerWidth,    \* window.innerWidth
    tgApp,         \* window.tgApp as App sees it: present, isInTelegram, webApp.platform
    deviceType,    \* App.deviceType
    platform,      \* App.platform
    currentUser,   \* App.currentUser
    appPc,         \* App: "start", "awaitFetch" (authenticateUser suspended), "done"
    errorShown,    \* showError() has been called
    authShown,     \* showAuthenticatedState() has been called
    fetches,       \* requests sent to the /user endpoint
    orientationTimers, \* pending setTimeout(100) callbacks of orientationchange
    appUncaught    \* an exception (or rejection) escaped initializeApp

telegramVars == <<tg, isFullscreen, listeners, pc, webApp, isInitialized, fellBack, timer,
                  uncaught, log, reportedActive, reportedInTime, droppedAfter, failSeen,
                  requestThrew, failEmitted, hostEvents, manualOps>>

variantVars == <<impl, v1FailHandlers>>

appVars == <<tgApp, deviceType, platform, currentUser, appPc, errorShown, authShown,
             fetches, orientationTimers, appUncaught>>

\* What the telegram.js actions never touch.
pageVars == <<impl, v1FailHandlers, userAgent, innerWidth, tgApp, deviceType, platform,
              currentUser, appPc, errorShown, authShown, fetches, orientationTimers,
              appUncaught>>

vars == <<tg, isFullscreen, listeners, pc, webApp, isInitialized, fellBack, timer,
          uncaught, log, reportedActive, reportedInTime, droppedAfter, failSeen, requestThrew,
          failEmitted, hostEvents, manualOps, impl, v1FailHandlers, userAgent, innerWidth,
          tgApp,
          deviceType, platform, currentUser, appPc, errorShown, authShown, fetches,
          orientationTimers, appUncaught>>

-----------------------------------------------------------------------------
(* Bounds of the exploration *)

MaxEvents == 3      \* host events delivered after the launch
MaxManual == 1      \* public wrapper calls after the launch
MaxMajor  == 9      \* host versions range over 7.0 .. MaxMajor.MaxMinor
MaxMinor  == 1

-----------------------------------------------------------------------------
(* The host *)

DesktopPlatforms == {"web", "macos", "windows", "linux"}
MobilePlatforms  == {"android", "ios", "mobile"}
Platforms        == DesktopPlatforms \cup MobilePlatforms \cup {"tdesktop", "unknown"}

Versions == {<<ma, mi>> : ma \in 7..MaxMajor, mi \in 0..MaxMinor}

MinFullscreenVersion == <<8, 0>>

\* No host: window.Telegram.WebApp is undefined, no field means anything.
NoHost == [present |-> FALSE, platform |-> "unknown", version |-> <<7, 0>>,
           hasIsVersionAtLeast |-> FALSE, hasRequestFullscreen |-> FALSE,
           hasOnEvent |-> FALSE, hasOffEvent |-> FALSE]

Hosts == [present : {TRUE}, platform : Platforms, version : Versions,
          hasIsVersionAtLeast : BOOLEAN, hasRequestFullscreen : BOOLEAN,
          hasOnEvent : BOOLEAN, hasOffEvent : BOOLEAN]

\* Dotted comparison of two versions, component by component.
VersionLess(a, b) == a[1] < b[1] \/ (a[1] = b[1] /\ a[2] < b[2])

\* Variant: a missing isVersionAtLeast is taken as "new enough".
isVersionAtLeast_absentOk(v) == ~tg.hasIsVersionAtLeast \/ ~VersionLess(tg.version, v)

\* tg.isVersionAtLeast?.(v): undefined (falsy) when the host has no such operation.
isVersionAtLeast(v) == tg.hasIsVersionAtLeast /\ ~VersionLess(tg.version, v)

-----------------------------------------------------------------------------
(* Adapter calls *)

\* One adapter call: who made it ("launch": the automatic negotiation and its
\* closures, "manual": a public wrapper), the operation, and the event name for
\* onEvent / offEvent ("" otherwise).
Call(by, op, arg) == [by |-> by, op |-> op, arg |-> arg]

RECURSIVE CountIn(_, _, _)
CountIn(s, by, op) ==
    IF s = <<>> THEN 0
    ELSE (IF Head(s).by = by /\ Head(s).op = op THEN 1 ELSE 0) + CountIn(Tail(s), by, op)

Calls(by, op) == CountIn(log, by, op)

-----------------------------------------------------------------------------
(* setOptimalViewportMode: the decision *)

isDesktop == tg.platform \in DesktopPlatforms

\* Variant: a mobile keyword in the user agent also counts as mobile (as in the
\* first class of part_001).
isMobile_orUA ==
    \/ tg.platform \in {"android", "ios", "mobile"}
    \/ \E i \in 1..Len(userAgent) : userAgent[i] \in {"Mobile", "Android", "iPhone", "iPad"}

\* Variant: 'ios' is missing from the mobile list.
isMobile_noIos == tg.platform \in {"android", "mobile"}

isMobile == tg.platform \in MobilePlatforms

supportsFullscreen == isVersionAtLeast(MinFullscreenVersion) /\ tg.hasRequestFullscreen

\* Variant: the version gate is forgotten.
canFullscreen_noVersion == isMobile /\ tg.hasRequestFullscreen

canFullscreen == isMobile /\ isVersionAtLeast(MinFullscreenVersion) /\ tg.hasRequestFullscreen

\* tg.onEvent?.(name, handler)
onEvent(st, name) ==
    IF tg.hasOnEvent
    THEN [st EXCEPT !.listeners = @ \cup {name},
                    !.log = Append(@, Call("launch", "onEvent", name))]
    ELSE st

\* tg.offEvent?.(name, handler)
offEvent(st, name) ==
    IF tg.hasOffEvent
    THEN [st EXCEPT !.listeners = @ \ {name},
                    !.log = Append(@, Call("launch", "offEvent", name))]
    ELSE st

\* Variant: fallback marks itself done but never expands.
fallback_noExpand(st) ==
    IF st.fellBack THEN st
    ELSE offEvent(offEvent([st EXCEPT !.fellBack = TRUE], "fullscreenFailed"),
                  "fullscreenChanged")

\* Variant: fallback expands but leaves the handlers subscribed.
fallback_noUnsubscribe(st) ==
    IF st.fellBack THEN st
    ELSE [st EXCEPT !.fellBack = TRUE,
                    !.log = Append(@, Call("launch", "expand", ""))]

\* Variant: fallback without the fellBack guard.
fallback_noGuard(st) ==
    offEvent(offEvent([st EXCEPT !.fellBack = TRUE,
                                 !.log = Append(@, Call("launch", "expand", ""))],
                      "fullscreenFailed"),
             "fullscreenChanged")

\* const fallback = () => { if (fellBack) return; fellBack = true; tg.expand(); offEvent x2 }
fallback(st) ==
    IF st.fellBack THEN st
    ELSE offEvent(offEvent([st EXCEPT !.fellBack = TRUE,
                                      !.log = Append(@, Call("launch", "expand", ""))],
                           "fullscreenFailed"),
                  "fullscreenChanged")

\* The closure state the handlers work on.
Closure == [fellBack |-> fellBack, listeners |-> listeners, log |-> log]

\* Variant: the handlers are subscribed after the request call returned, so a
\* failure emitted while it runs finds no handler.
requestBranch_subscribeAfter(st0, syncFail, throws) ==
    LET called == tg.hasRequestFullscreen
        st1 == IF called
               THEN [st0 EXCEPT !.log = Append(@, Call("launch", "requestFullscreen", ""))]
               ELSE st0
        threw == ~called \/ throws
    IN  IF threw
        THEN [closure |-> fallback(st1), timer |-> "unarmed", threw |-> TRUE,
              heard |-> FALSE, escaped |-> FALSE]
        ELSE [closure |-> onEvent(onEvent(st1, "fullscreenFailed"), "fullscreenChanged"),
              timer |-> "armed", threw |-> FALSE, heard |-> FALSE, escaped |-> FALSE]

\* Variant: the request call is not wrapped in try/catch.
requestBranch_noCatch(st0, syncFail, throws) ==
    LET st1 == onEvent(onEvent(st0, "fullscreenFailed"), "fullscreenChanged")
        called == tg.hasRequestFullscreen
        st2 == IF called
               THEN [st1 EXCEPT !.log = Append(@, Call("launch", "requestFullscreen", ""))]
               ELSE st1
        heard == called /\ syncFail /\ "fullscreenFailed" \in st2.listeners
        st3 == IF heard THEN fallback(st2) ELSE st2
        threw == ~called \/ throws
    IN  IF threw
        THEN [closure |-> st3, timer |-> "unarmed", threw |-> TRUE,
              heard |-> heard, escaped |-> TRUE]
        ELSE [closure |-> st3, timer |-> "armed", threw |-> FALSE,
              heard |-> heard, escaped |-> FALSE]

\* Lines 227-268, the branch taken when canFullscreen holds.  The host decides
\* what tg.requestFullscreen() does before it returns: it may emit
\* fullscreenFailed synchronously (syncFail) and it may raise (throws).
\* Calling a value that is not a function raises a TypeError.  The call sits in
\* a try whose catch runs fallback() and returns: nothing escapes, no timer.
requestBranch(st0, syncFail, throws) ==
    LET st1 == onEvent(onEvent(st0, "fullscreenFailed"), "fullscreenChanged")
        called == tg.hasRequestFullscreen
        st2 == IF called
               THEN [st1 EXCEPT !.log = Append(@, Call("launch", "requestFullscreen", ""))]
               ELSE st1
        heard == called /\ syncFail /\ "fullscreenFailed" \in st2.listeners
        st3 == IF heard THEN fallback(st2) ELSE st2
        threw == ~called \/ throws
    IN  IF threw
        THEN [closure |-> fallback(st3), timer |-> "unarmed", threw |-> TRUE,
              heard |-> heard, escaped |-> FALSE]
        ELSE [closure |-> st3, timer |-> "armed", threw |-> FALSE,
              heard |-> heard, escaped |-> FALSE]

\* Variant: no desktop short-circuit, the decision uses the logged
\* supportsFullscreen value.
setOptimalViewportMode_noDesktop(st0, syncFail, throws) ==
    IF supportsFullscreen
    THEN requestBranch(st0, syncFail, throws)
    ELSE [closure |-> [st0 EXCEPT !.log = Append(@, Call("launch", "expand", ""))],
          timer |-> "unarmed", threw |-> FALSE, heard |-> FALSE, escaped |-> FALSE]

\* Variant: the trailing expand() of lines 271-272 is missing.
setOptimalViewportMode_noFinalExpand(st0, syncFail, throws) ==
    IF isDesktop
    THEN [closure |-> [st0 EXCEPT !.log = Append(@, Call("launch", "expand", ""))],
          timer |-> "unarmed", threw |-> FALSE, heard |-> FALSE, escaped |-> FALSE]
    ELSE IF canFullscreen
         THEN requestBranch(st0, syncFail, throws)
         ELSE [closure |-> st0,
               timer |-> "unarmed", threw |-> FALSE, heard |-> FALSE, escaped |-> FALSE]

\* Lines 204-273.
setOptimalViewportMode(st0, syncFail, throws) ==
    IF isDesktop
    THEN [closure |-> [st0 EXCEPT !.log = Append(@, Call("launch", "expand", ""))],
          timer |-> "unarmed", threw |-> FALSE, heard |-> FALSE, escaped |-> FALSE]
    ELSE IF canFullscreen
         THEN requestBranch(st0, syncFail, throws)
         ELSE [closure |-> [st0 EXCEPT !.log = Append(@, Call("launch", "expand", ""))],
               timer |-> "unarmed", threw |-> FALSE, heard |-> FALSE, escaped |-> FALSE]

\* Variant: the timer callback expands and then asks for fullscreen again.
safetyTimeout_retry(st, fs) ==
    IF ~fs
    THEN [fallback(st) EXCEPT !.log = Append(@, Call("launch", "requestFullscreen", ""))]
    ELSE st

\* Variant: the timer callback does nothing.
safetyTimeout_never(st, fs) == st

\* Variant: the timer callback falls back without looking at isFullscreen.
safetyTimeout_always(st, fs) == fallback(st)

\* The setTimeout callback, lines 261-266: if (!tg.isFullscreen) fallback().
safetyTimeout(st, fs) == IF ~fs THEN fallback(st) ELSE st

-----------------------------------------------------------------------------
(* The capability probe: read-only wrappers, lines 309-328 *)

\* The value JavaScript null / a falsy result stands for.
Null == <<>>

\* Variant: the probe dereferences this.webApp without looking at isInitialized.
isFullscreenAvailable_noInitGuard ==
    IF webApp = "null"
    THEN [threw |-> TRUE, value |-> FALSE]
    ELSE [threw |-> FALSE,
          value |-> tg.hasIsVersionAtLeast /\ isVersionAtLeast(MinFullscreenVersion)
                    /\ tg.hasRequestFullscreen]

\* Variant: the probe forgets the typeof check.
isFullscreenAvailable_noFunction ==
    [threw |-> FALSE,
     value |-> isInitialized /\ tg.hasIsVersionAtLeast
               /\ isVersionAtLeast(MinFullscreenVersion)]

\* isFullscreenAvailable(), lines 309-314: a chain of && that stops at the first
\* falsy operand, so this.webApp is read only when isInitialized is true.
isFullscreenAvailable ==
    IF ~isInitialized
    THEN [threw |-> FALSE, value |-> FALSE]
    ELSE IF webApp = "null"
         THEN [threw |-> TRUE, value |-> FALSE]
         ELSE [threw |-> FALSE,
               value |-> tg.hasIsVersionAtLeast /\ isVersionAtLeast(MinFullscreenVersion)
                         /\ tg.hasRequestFullscreen]

\* getVersion(), lines 322-324.
getVersion ==
    IF isInitialized
    THEN (IF webApp = "null" THEN [threw |-> TRUE, value |-> Null]
                             ELSE [threw |-> FALSE, value |-> tg.version])
    ELSE [threw |-> FALSE, value |-> Null]

-----------------------------------------------------------------------------
(* The page: user agent, viewport, window.tgApp *)

MaxUALen == 2           \* tokens in a user agent
MaxPendingTimers == 1   \* orientationchange timeouts pending at once

\* The substrings of a user agent that some test of the source looks for.
UATokens == {"Android", "Mobile", "iPad", "iPhone", "Macintosh", "Windows", "Linux"}

UAsUpTo(n) == UNION {[1..k -> UATokens] : k \in 0..n}

UAs == UAsUpTo(MaxUALen)

MobileBreakpoint == 768

Widths == {320, MobileBreakpoint, MobileBreakpoint + 1, 1024}

\* The user agent contains one of the tokens.
HasToken(ua, toks) == \E i \in 1..Len(ua) : ua[i] \in toks

\* window.tgApp: absent, or an object with isInTelegram and possibly
\* webApp.platform ("" when webApp or its platform is missing).
NoTgApp == [present |-> FALSE, isInTelegram |-> FALSE, platform |-> ""]

TgApps == {NoTgApp} \cup
          [present : {TRUE}, isInTelegram : BOOLEAN, platform : Platforms \cup {""}]

-----------------------------------------------------------------------------
(* App (src/unnamed/part_000) *)

\* /Android|webOS|iPhone|iPad|iPod|BlackBerry|IEMobile|Opera Mini/i
isMobileUA(ua) == HasToken(ua, {"Android", "iPhone", "iPad"})

\* /iPad|Android(?!.*Mobile)/i: an iPad, or an Android with no Mobile after it.
isTabletUA(ua) ==
    \E i \in 1..Len(ua) :
        \/ ua[i] = "iPad"
        \/ ua[i] = "Android" /\ \A j \in (i + 1)..Len(ua) : ua[j] # "Mobile"

\* Variant: the breakpoint itself is not mobile.
detectDevice_strictWidth(prev, ua, width, tgPlatform) ==
    LET local == IF width < MobileBreakpoint \/ isMobileUA(ua) THEN "mobile"
                 ELSE IF isTabletUA(ua) THEN "tablet"
                 ELSE "desktop"
    IN  IF tgPlatform # ""
        THEN (IF tgPlatform \in {"ios", "android"} THEN "mobile"
              ELSE IF tgPlatform = "web" THEN "desktop"
              ELSE local)
        ELSE local

\* Variant: the host platform is not consulted.
detectDevice_noOverride(prev, ua, width, tgPlatform) ==
    IF width <= MobileBreakpoint \/ isMobileUA(ua) THEN "mobile"
    ELSE IF isTabletUA(ua) THEN "tablet"
    ELSE "desktop"

\* Variant: with no signal the stored deviceType is kept (as detectPlatform does).
detectDevice_sticky(prev, ua, width, tgPlatform) ==
    LET local == IF width <= MobileBreakpoint \/ isMobileUA(ua) THEN "mobile"
                 ELSE IF isTabletUA(ua) THEN "tablet"
                 ELSE prev
    IN  IF tgPlatform # ""
        THEN (IF tgPlatform \in {"ios", "android"} THEN "mobile"
              ELSE IF tgPlatform = "web" THEN "desktop"
              ELSE local)
        ELSE local

\* detectDevice(), lines 38-60: the new deviceType; prev is the stored one.
detectDevice(prev, ua, width, tgPlatform) ==
    LET local == IF width <= MobileBreakpoint \/ isMobileUA(ua) THEN "mobile"
                 ELSE IF isTabletUA(ua) THEN "tablet"
                 ELSE "desktop"
    IN  IF tgPlatform # ""
        THEN (IF tgPlatform \in {"ios", "android"} THEN "mobile"
              ELSE IF tgPlatform = "web" THEN "desktop"
              ELSE local)
        ELSE local

\* Variant: the user agent wins over the host platform.
detectPlatform_uaWins(prev, ua, tgPlatform) ==
    IF HasToken(ua, {"iPhone", "iPad"}) THEN "ios"
    ELSE IF HasToken(ua, {"Android"}) THEN "android"
    ELSE IF HasToken(ua, {"Macintosh"}) THEN "macos"
    ELSE IF HasToken(ua, {"Windows"}) THEN "windows"
    ELSE IF HasToken(ua, {"Linux"}) THEN "linux"
    ELSE IF tgPlatform # "" THEN tgPlatform
    ELSE prev

\* detectPlatform(), lines 62-81: the new platform; prev is the stored one.
detectPlatform(prev, ua, tgPlatform) ==
    LET local == IF HasToken(ua, {"iPhone", "iPad"}) THEN "ios"
                 ELSE IF HasToken(ua, {"Android"}) THEN "android"
                 ELSE IF HasToken(ua, {"Macintosh"}) THEN "macos"
                 ELSE IF HasToken(ua, {"Windows"}) THEN "windows"
                 ELSE IF HasToken(ua, {"Linux"}) THEN "linux"
                 ELSE prev
    IN  IF tgPlatform # "" THEN tgPlatform ELSE local

\* Variant: initializeApp authenticates without asking isInTelegram.
initializeApp_noCheck(app, prepThrows) ==
    IF ~app.present \/ prepThrows
    THEN [fetch |-> FALSE, error |-> TRUE, next |-> "done", escaped |-> FALSE]
    ELSE [fetch |-> TRUE, error |-> FALSE, next |-> "awaitFetch", escaped |-> FALSE]

\* initializeApp(), lines 124-142, with authenticateUser() up to its first
\* await (lines 144-168).  prepThrows: one of the window.tgApp calls before the
\* fetch raised; the try of authenticateUser catches it and shows the error.
initializeApp(app, prepThrows) ==
    IF app.present /\ app.isInTelegram
    THEN (IF prepThrows
          THEN [fetch |-> FALSE, error |-> TRUE, next |-> "done", escaped |-> FALSE]
          ELSE [fetch |-> TRUE, error |-> FALSE, next |-> "awaitFetch", escaped |-> FALSE])
    ELSE [fetch |-> FALSE, error |-> TRUE, next |-> "done", escaped |-> FALSE]

\* The App has not been constructed: field values of the constructor, lines 6-11.
AppNotStarted ==
    /\ tgApp = NoTgApp
    /\ deviceType = "unknown"
    /\ platform = "unknown"
    /\ currentUser = Null
    /\ appPc = "start"
    /\ errorShown = FALSE
    /\ authShown = FALSE
    /\ fetches = 0
    /\ orientationTimers = 0
    /\ appUncaught = FALSE

-----------------------------------------------------------------------------
(* The state machine *)

Init ==
    /\ tg \in Hosts \cup {NoHost}
    /\ isFullscreen \in (IF tg.present THEN BOOLEAN ELSE {FALSE})
    /\ listeners = {}
    /\ pc = "start"
    /\ webApp = "null"
    /\ isInitialized = FALSE
    /\ fellBack = FALSE
    /\ timer = "unarmed"
    /\ uncaught = {}
    /\ log = <<>>
    /\ reportedActive = FALSE
    /\ reportedInTime = FALSE
    /\ droppedAfter = FALSE
    /\ failSeen = FALSE
    /\ requestThrew = FALSE
    /\ failEmitted = FALSE
    /\ hostEvents = 0
    /\ manualOps = 0
    /\ impl = "current"
    /\ v1FailHandlers = 0
    /\ userAgent = <<>>
    /\ innerWidth = 1024
    /\ AppNotStarted

\* Variant: init() without the window.Telegram guard reads initData of an
\* undefined host and the TypeError leaves the constructor.
LaunchNoHost_noGuard ==
    /\ pc = "start"
    /\ ~tg.present
    /\ pc' = "running"
    /\ uncaught' = {"launch"}
    /\ UNCHANGED <<tg, failEmitted,
                   isFullscreen, listeners, webApp, isInitialized, fellBack, timer,
                   log, reportedActive, reportedInTime, droppedAfter, failSeen,
                   requestThrew, hostEvents, manualOps>>
    /\ UNCHANGED pageVars

\* new TelegramWebApp() without a host: init() only warns (lines 40-42).
LaunchNoHost ==
    /\ pc = "start"
    /\ ~tg.present
    /\ pc' = "running"
    /\ UNCHANGED <<tg, failEmitted,
                   isFullscreen, listeners, webApp, isInitialized, fellBack, timer,
                   uncaught, log, reportedActive, reportedInTime, droppedAfter, failSeen,
                   requestThrew, hostEvents, manualOps>>
    /\ UNCHANGED pageVars

\* Variant: ready() is called after the viewport mode was set.
LaunchInHost_readyLast ==
    /\ pc = "start"
    /\ tg.present
    /\ \E syncFail \in BOOLEAN, throws \in BOOLEAN :
          LET r == setOptimalViewportMode(Closure, syncFail, throws)
          IN  /\ fellBack' = r.closure.fellBack
              /\ listeners' = r.closure.listeners
              /\ log' = Append(r.closure.log, Call("launch", "ready", ""))
              /\ timer' = r.timer
              /\ requestThrew' = r.threw
              /\ failSeen' = r.heard
              /\ failEmitted' =
                    (syncFail /\ CountIn(r.closure.log, "launch", "requestFullscreen") > 0)
              /\ uncaught' = IF r.escaped THEN {"launch"} ELSE {}
    /\ pc' = "running"
    /\ webApp' = "tg"
    /\ isInitialized' = TRUE
    /\ UNCHANGED <<tg, isFullscreen, reportedActive, reportedInTime,
                   droppedAfter, hostEvents, manualOps>>
    /\ UNCHANGED pageVars

\* new TelegramWebApp() inside a host: init() lines 15-39.
LaunchInHost ==
    /\ pc = "start"
    /\ tg.present
    /\ \E syncFail \in BOOLEAN, throws \in BOOLEAN :
          LET st0 == [Closure EXCEPT !.log = Append(@, Call("launch", "ready", ""))]
              r   == setOptimalViewportMode(st0, syncFail, throws)
          IN  /\ fellBack' = r.closure.fellBack
              /\ listeners' = r.closure.listeners
              /\ log' = r.closure.log
              /\ timer' = r.timer
              /\ requestThrew' = r.threw
              /\ failSeen' = r.heard
              /\ failEmitted' =
                    (syncFail /\ CountIn(r.closure.log, "launch", "requestFullscreen") > 0)
              /\ uncaught' = IF r.escaped THEN {"launch"} ELSE {}
    /\ pc' = "running"
    /\ webApp' = "tg"
    /\ isInitialized' = TRUE
    /\ UNCHANGED <<tg, isFullscreen, reportedActive, reportedInTime,
                   droppedAfter, hostEvents, manualOps>>
    /\ UNCHANGED pageVars

\* The host emits fullscreenFailed and the handler onFail (lines 240-243) runs.
HostFullscreenFailed ==
    /\ pc = "running"
    /\ hostEvents < MaxEvents
    /\ "fullscreenFailed" \in listeners
    /\ LET st == fallback(Closure)
       IN  /\ fellBack' = st.fellBack
           /\ listeners' = st.listeners
           /\ log' = st.log
    /\ failSeen' = TRUE
    /\ hostEvents' = hostEvents + 1
    /\ UNCHANGED <<tg, failEmitted,
                   isFullscreen, pc, webApp, isInitialized, timer, uncaught,
                   reportedActive, reportedInTime, droppedAfter, requestThrew, manualOps>>
    /\ UNCHANGED pageVars

\* Variant: onChange treats a report of fullscreen as the end of the
\* negotiation: it unsubscribes both handlers and cancels the timer.
HostFullscreenChanged_settles ==
    /\ pc = "running"
    /\ tg.present
    /\ hostEvents < MaxEvents
    /\ \E b \in BOOLEAN :
          /\ isFullscreen' = b
          /\ reportedActive' = (reportedActive \/ b)
          /\ reportedInTime' = (reportedInTime \/ (b /\ timer = "armed"))
          /\ droppedAfter' = (droppedAfter \/ (reportedActive /\ ~b))
          /\ IF b /\ "fullscreenChanged" \in listeners
             THEN LET st == offEvent(offEvent(Closure, "fullscreenFailed"),
                                     "fullscreenChanged")
                  IN  /\ listeners' = st.listeners
                      /\ log' = st.log
                      /\ timer' = IF timer = "armed" THEN "firedFullscreen" ELSE timer
             ELSE UNCHANGED <<listeners, log, timer>>
    /\ hostEvents' = hostEvents + 1
    /\ UNCHANGED <<tg, failEmitted, pc, webApp, isInitialized, fellBack, uncaught,
                   failSeen, requestThrew, manualOps>>
    /\ UNCHANGED pageVars

\* The host switches its fullscreen flag to b and emits fullscreenChanged; the
\* handler onChange (lines 245-247), when subscribed, only logs to the console.
HostFullscreenChanged ==
    /\ pc = "running"
    /\ tg.present
    /\ hostEvents < MaxEvents
    /\ \E b \in BOOLEAN :
          \* onChange, if "fullscreenChanged" \in listeners, writes nothing
          /\ isFullscreen' = b
          /\ reportedActive' = (reportedActive \/ b)
          /\ reportedInTime' = (reportedInTime \/ (b /\ timer = "armed"))
          /\ droppedAfter' = (droppedAfter \/ (reportedActive /\ ~b))
    /\ hostEvents' = hostEvents + 1
    /\ UNCHANGED <<tg, failEmitted,
                   listeners, pc, webApp, isInitialized, fellBack, timer, uncaught,
                   log, failSeen, requestThrew, manualOps>>
    /\ UNCHANGED pageVars

\* The setTimeout callback of lines 261-266.
TimerFire ==
    /\ pc = "running"
    /\ timer = "armed"
    /\ LET st == safetyTimeout(Closure, isFullscreen)
       IN  /\ fellBack' = st.fellBack
           /\ listeners' = st.listeners
           /\ log' = st.log
    /\ timer' = IF isFullscreen THEN "firedFullscreen" ELSE "firedNotFullscreen"
    /\ UNCHANGED <<tg, failEmitted,
                   isFullscreen, pc, webApp, isInitialized, uncaught, reportedActive,
                   reportedInTime, droppedAfter, failSeen, requestThrew, hostEvents,
                   manualOps>>
    /\ UNCHANGED pageVars

\* close(), lines 278-282.
ManualClose ==
    /\ pc = "running"
    /\ manualOps < MaxManual
    /\ manualOps' = manualOps + 1
    /\ log' = IF isInitialized THEN Append(log, Call("manual", "close", "")) ELSE log
    /\ UNCHANGED <<tg, failEmitted,
                   isFullscreen, listeners, pc, webApp, isInitialized, fellBack, timer,
                   uncaught, reportedActive, reportedInTime, droppedAfter, failSeen,
                   requestThrew, hostEvents>>
    /\ UNCHANGED pageVars

\* expand(), lines 284-288.
ManualExpand ==
    /\ pc = "running"
    /\ manualOps < MaxManual
    /\ manualOps' = manualOps + 1
    /\ log' = IF isInitialized THEN Append(log, Call("manual", "expand", "")) ELSE log
    /\ UNCHANGED <<tg, failEmitted,
                   isFullscreen, listeners, pc, webApp, isInitialized, fellBack, timer,
                   uncaught, reportedActive, reportedInTime, droppedAfter, failSeen,
                   requestThrew, hostEvents>>
    /\ UNCHANGED pageVars

\* requestFullsize(), lines 301-306.
ManualRequestFullsize ==
    /\ pc = "running"
    /\ manualOps < MaxManual
    /\ manualOps' = manualOps + 1
    /\ log' = IF isInitialized THEN Append(log, Call("manual", "expand", "")) ELSE log
    /\ UNCHANGED <<tg, failEmitted,
                   isFullscreen, listeners, pc, webApp, isInitialized, fellBack, timer,
                   uncaught, reportedActive, reportedInTime, droppedAfter, failSeen,
                   requestThrew, hostEvents>>
    /\ UNCHANGED pageVars

\* Variant: the manual wrapper applies the desktop short-circuit of the launch.
ManualRequestFullscreen_platformGate ==
    /\ pc = "running"
    /\ manualOps < MaxManual
    /\ manualOps' = manualOps + 1
    /\ IF isInitialized /\ ~isDesktop /\ isVersionAtLeast(MinFullscreenVersion)
          /\ tg.hasRequestFullscreen
       THEN /\ log' = Append(log, Call("manual", "requestFullscreen", ""))
            /\ \E throws \in BOOLEAN :
                  uncaught' = IF throws THEN uncaught \cup {"manual"} ELSE uncaught
       ELSE IF webApp = "null"
            THEN /\ log' = log
                 /\ uncaught' = uncaught \cup {"manual"}
            ELSE /\ log' = Append(log, Call("manual", "expand", ""))
                 /\ uncaught' = uncaught
    /\ UNCHANGED <<tg, failEmitted,
                   isFullscreen, listeners, pc, webApp, isInitialized, fellBack, timer,
                   reportedActive, reportedInTime, droppedAfter, failSeen, requestThrew,
                   hostEvents>>
    /\ UNCHANGED pageVars

\* requestFullscreen(), lines 291-299.  The else branch dereferences this.webApp
\* without a guard; the call of tg.requestFullscreen is not inside a try.
ManualRequestFullscreen ==
    /\ pc = "running"
    /\ manualOps < MaxManual
    /\ manualOps' = manualOps + 1
    /\ IF isInitialized /\ isVersionAtLeast(MinFullscreenVersion) /\ tg.hasRequestFullscreen
       THEN /\ log' = Append(log, Call("manual", "requestFullscreen", ""))
            /\ \E throws \in BOOLEAN :
                  uncaught' = IF throws THEN uncaught \cup {"manual"} ELSE uncaught
       ELSE IF webApp = "null"
            THEN /\ log' = log
                 /\ uncaught' = uncaught \cup {"manual"}
            ELSE /\ log' = Append(log, Call("manual", "expand", ""))
                 /\ uncaught' = uncaught
    /\ UNCHANGED <<tg, failEmitted,
                   isFullscreen, listeners, pc, webApp, isInitialized, fellBack, timer,
                   reportedActive, reportedInTime, droppedAfter, failSeen, requestThrew,
                   hostEvents>>
    /\ UNCHANGED pageVars

Next ==
    \/ LaunchNoHost
    \/ LaunchInHost
    \/ HostFullscreenFailed
    \/ HostFullscreenChanged
    \/ TimerFire
    \/ ManualClose
    \/ ManualExpand
    \/ ManualRequestFullsize
    \/ ManualRequestFullscreen

Spec == Init /\ [][Next]_vars

\* The event loop runs a due timer callback: an armed timer eventually fires.
LiveSpec == Spec /\ WF_vars(TimerFire)

TypeOK ==
    /\ tg \in Hosts \cup {NoHost}
    /\ isFullscreen \in BOOLEAN
    /\ listeners \subseteq {"fullscreenFailed", "fullscreenChanged"}
    /\ pc \in {"start", "running"}
    /\ webApp \in {"null", "tg"}
    /\ isInitialized \in BOOLEAN
    /\ fellBack \in BOOLEAN
    /\ timer \in {"unarmed", "armed", "firedFullscreen", "firedNotFullscreen"}
    /\ uncaught \subseteq {"launch", "manual"}
    /\ hostEvents \in 0..MaxEvents
    /\ manualOps \in 0..MaxManual

-----------------------------------------------------------------------------
(* The App state machine *)

AppInit ==
    /\ tg = NoHost
    /\ isFullscreen = FALSE
    /\ listeners = {}
    /\ pc = "start"
    /\ webApp = "null"
    /\ isInitialized = FALSE
    /\ fellBack = FALSE
    /\ timer = "unarmed"
    /\ uncaught = {}
    /\ log = <<>>
    /\ reportedActive = FALSE
    /\ reportedInTime = FALSE
    /\ droppedAfter = FALSE
    /\ failSeen = FALSE
    /\ requestThrew = FALSE
    /\ failEmitted = FALSE
    /\ hostEvents = 0
    /\ manualOps = 0
    /\ impl = "current"
    /\ v1FailHandlers = 0
    /\ userAgent \in UAs
    /\ innerWidth \in Widths
    /\ tgApp \in TgApps
    /\ deviceType = "unknown"
    /\ platform = "unknown"
    /\ currentUser = Null
    /\ appPc = "start"
    /\ errorShown = FALSE
    /\ authShown = FALSE
    /\ fetches = 0
    /\ orientationTimers = 0
    /\ appUncaught = FALSE

\* new App(): init() lines 16-36, initializeApp() up to its first suspension.
AppConstruct ==
    /\ appPc = "start"
    /\ deviceType' = detectDevice(deviceType, userAgent, innerWidth, tgApp.platform)
    /\ platform' = detectPlatform(platform, userAgent, tgApp.platform)
    /\ \E prepThrows \in BOOLEAN :
          LET r == initializeApp(tgApp, prepThrows)
          IN  /\ fetches' = IF r.fetch THEN fetches + 1 ELSE fetches
              /\ errorShown' = (errorShown \/ r.error)
              /\ appPc' = r.next
              /\ appUncaught' = (appUncaught \/ r.escaped)
    /\ UNCHANGED <<currentUser, authShown, orientationTimers, tgApp, userAgent, innerWidth>>
    /\ UNCHANGED <<telegramVars, variantVars>>

\* Variant: currentUser is assigned from the body before the status is looked at.
AuthResponse_setsFirst ==
    /\ appPc = "awaitFetch"
    /\ appPc' = "done"
    /\ \E outcome \in {"ok", "notOk", "networkError", "badBody"} :
          IF outcome = "ok"
          THEN /\ currentUser' = <<"user">>
               /\ authShown' = TRUE
               /\ errorShown' = errorShown
          ELSE /\ currentUser' = IF outcome = "notOk" THEN <<"user">> ELSE currentUser
               /\ authShown' = authShown
               /\ errorShown' = TRUE
    /\ UNCHANGED <<deviceType, platform, fetches, orientationTimers, appUncaught, tgApp,
                   userAgent, innerWidth>>
    /\ UNCHANGED <<telegramVars, variantVars>>

\* The response of the /user request arrives and authenticateUser() resumes,
\* lines 170-193: on a failed request, a status that is not ok or an unusable
\* body the catch shows the error; otherwise currentUser is set.
AuthResponse ==
    /\ appPc = "awaitFetch"
    /\ appPc' = "done"
    /\ \E outcome \in {"ok", "notOk", "networkError", "badBody"} :
          IF outcome = "ok"
          THEN /\ currentUser' = <<"user">>
               /\ authShown' = TRUE
               /\ errorShown' = errorShown
          ELSE /\ currentUser' = currentUser
               /\ authShown' = authShown
               /\ errorShown' = TRUE
    /\ UNCHANGED <<deviceType, platform, fetches, orientationTimers, appUncaught, tgApp,
                   userAgent, innerWidth>>
    /\ UNCHANGED <<telegramVars, variantVars>>

\* The viewport changes and the resize listener runs, lines 117-121.
Resize ==
    /\ appPc # "start"
    /\ \E w \in Widths \ {innerWidth} :
          /\ innerWidth' = w
          /\ deviceType' = detectDevice(deviceType, userAgent, w, tgApp.platform)
    /\ UNCHANGED <<platform, currentUser, appPc, errorShown, authShown, fetches,
                   orientationTimers, appUncaught, tgApp, userAgent>>
    /\ UNCHANGED <<telegramVars, variantVars>>

\* The device is rotated: the viewport changes and the orientationchange
\* listener schedules a detection 100 ms later, lines 108-114.
OrientationChange ==
    /\ appPc # "start"
    /\ orientationTimers < MaxPendingTimers
    /\ \E w \in Widths \ {innerWidth} : innerWidth' = w
    /\ orientationTimers' = orientationTimers + 1
    /\ UNCHANGED <<deviceType, platform, currentUser, appPc, errorShown, authShown,
                   fetches, appUncaught, tgApp, userAgent>>
    /\ UNCHANGED <<telegramVars, variantVars>>

\* The timeout of the orientationchange listener runs, lines 109-113.
OrientationTimerFire ==
    /\ orientationTimers > 0
    /\ orientationTimers' = orientationTimers - 1
    /\ deviceType' = detectDevice(deviceType, userAgent, innerWidth, tgApp.platform)
    /\ UNCHANGED <<platform, currentUser, appPc, errorShown, authShown, fetches,
                   appUncaught, tgApp, userAgent, innerWidth>>
    /\ UNCHANGED <<telegramVars, variantVars>>

AppNext ==
    \/ AppConstruct
    \/ AuthResponse
    \/ Resize
    \/ OrientationChange
    \/ OrientationTimerFire

AppSpec == AppInit /\ [][AppNext]_vars

-----------------------------------------------------------------------------
(* The first class of src/unnamed/part_001 (variant 1) *)

MaxLaunchUALen == 1     \* tokens in a user agent when the launch variants are compared

LaunchWidths == {MobileBreakpoint, MobileBreakpoint + 1}

\* setOptimalViewportMode() of variant 1, part_001 lines 202-281: the adapter
\* calls it makes and the number of fullscreenFailed handlers it registers.
\* throws: tg.requestFullscreen() raised.  The whole body is in a try whose
\* catch calls expand(); onEvent is called without ?. .
v1SetOptimalViewportMode(initialized, ua, throws) ==
    LET isMobilePlatform == tg.platform \in {"android", "ios", "mobile"}
        mobileUA == HasToken(ua, {"Mobile", "Android", "iPhone", "iPad"})
        isDesktopPlatform == tg.platform \in {"web", "macos", "windows", "linux"}
        mobile == isMobilePlatform \/ mobileUA
        desktop == isDesktopPlatform /\ ~mobile
        request == Call("variant1", "requestFullscreen", "")
        expand == Call("variant1", "expand", "")
    IN  IF ~initialized THEN [ops |-> <<>>, handlers |-> 0]
        ELSE IF mobile
        THEN (IF tg.hasIsVersionAtLeast /\ isVersionAtLeast(MinFullscreenVersion)
                 /\ tg.hasRequestFullscreen
              THEN (IF throws \/ ~tg.hasOnEvent
                    THEN [ops |-> <<request, expand>>, handlers |-> 0]
                    ELSE [ops |-> <<request,
                                    Call("variant1", "onEvent", "fullscreenChanged"),
                                    Call("variant1", "onEvent", "fullscreenFailed")>>,
                          handlers |-> 1])
              ELSE [ops |-> <<expand>>, handlers |-> 0])
        ELSE IF desktop
        THEN [ops |-> <<expand>>, handlers |-> 0]
        ELSE IF tg.hasRequestFullscreen
        THEN [ops |-> IF throws THEN <<request, expand>> ELSE <<request>>, handlers |-> 0]
        ELSE [ops |-> <<expand>>, handlers |-> 0]

\* The page loads one of the classes, on any host, user agent and viewport.
VariantInit ==
    /\ tg \in Hosts \cup {NoHost}
    /\ isFullscreen = FALSE
    /\ listeners = {}
    /\ pc = "start"
    /\ webApp = "null"
    /\ isInitialized = FALSE
    /\ fellBack = FALSE
    /\ timer = "unarmed"
    /\ uncaught = {}
    /\ log = <<>>
    /\ reportedActive = FALSE
    /\ reportedInTime = FALSE
    /\ droppedAfter = FALSE
    /\ failSeen = FALSE
    /\ requestThrew = FALSE
    /\ failEmitted = FALSE
    /\ hostEvents = 0
    /\ manualOps = 0
    /\ impl = "current"
    /\ v1FailHandlers = 0
    /\ userAgent \in UAsUpTo(MaxLaunchUALen)
    /\ innerWidth \in LaunchWidths
    /\ AppNotStarted

\* Variant: isInitialized is set before setOptimalViewportMode() is called.
V1Launch_initFirst ==
    /\ pc = "start"
    /\ tg.present
    /\ impl' = "variant1"
    /\ pc' = "running"
    /\ webApp' = "tg"
    /\ LET r == v1SetOptimalViewportMode(TRUE, userAgent, FALSE)
       IN  /\ log' = Append(log, Call("variant1", "ready", "")) \o r.ops
           /\ v1FailHandlers' = v1FailHandlers + r.handlers
    /\ isInitialized' = TRUE
    /\ UNCHANGED <<tg, failEmitted,
                   isFullscreen, listeners, fellBack, timer, uncaught, reportedActive,
                   reportedInTime, droppedAfter, failSeen, requestThrew, hostEvents,
                   manualOps>>
    /\ UNCHANGED <<userAgent, innerWidth, appVars>>

\* new TelegramWebApp() of variant 1 inside a host, part_001 lines 14-41:
\* setOptimalViewportMode() runs before isInitialized is set and returns at once.
V1Launch ==
    /\ pc = "start"
    /\ tg.present
    /\ impl' = "variant1"
    /\ pc' = "running"
    /\ webApp' = "tg"
    /\ LET r == v1SetOptimalViewportMode(isInitialized, userAgent, FALSE)
       IN  /\ log' = Append(log, Call("variant1", "ready", "")) \o r.ops
           /\ v1FailHandlers' = v1FailHandlers + r.handlers
    /\ isInitialized' = TRUE
    /\ UNCHANGED <<tg, failEmitted,
                   isFullscreen, listeners, fellBack, timer, uncaught, reportedActive,
                   reportedInTime, droppedAfter, failSeen, requestThrew, hostEvents,
                   manualOps>>
    /\ UNCHANGED <<userAgent, innerWidth, appVars>>

\* setOptimalViewportMode() of variant 1 called again on the constructed object.
V1SetOptimalViewportMode ==
    /\ pc = "running"
    /\ impl = "variant1"
    /\ manualOps < MaxManual
    /\ manualOps' = manualOps + 1
    /\ \E throws \in BOOLEAN :
          LET r == v1SetOptimalViewportMode(isInitialized, userAgent, throws)
          IN  /\ log' = log \o r.ops
              /\ v1FailHandlers' = v1FailHandlers + r.handlers
    /\ UNCHANGED <<tg, failEmitted,
                   isFullscreen, listeners, pc, webApp, isInitialized, fellBack, timer,
                   uncaught, reportedActive, reportedInTime, droppedAfter, failSeen,
                   requestThrew, hostEvents>>
    /\ UNCHANGED <<impl, userAgent, innerWidth, appVars>>

\* The host emits fullscreenFailed: every handler variant 1 registered calls
\* expand(), part_001 lines 243-246.
V1HostFullscreenFailed ==
    /\ pc = "running"
    /\ impl = "variant1"
    /\ v1FailHandlers > 0
    /\ hostEvents < MaxEvents
    /\ hostEvents' = hostEvents + 1
    /\ log' = log \o [i \in 1..v1FailHandlers |-> Call("variant1", "expand", "")]
    /\ UNCHANGED <<tg, failEmitted,
                   isFullscreen, listeners, pc, webApp, isInitialized, fellBack, timer,
                   uncaught, reportedActive, reportedInTime, droppedAfter, failSeen,
                   requestThrew, manualOps>>
    /\ UNCHANGED <<impl, v1FailHandlers, userAgent, innerWidth, appVars>>

\* setOptimalViewportMode() of variant 2, part_001 lines 601-650: the adapter
\* calls it makes and the number of fullscreenFailed handlers it registers.
\* requestFullscreen is called without a test that it exists, and onEvent
\* without ?.; a TypeError or a raise lands in the catch, which calls expand().
v2SetOptimalViewportMode(initialized, throws) ==
    LET desktop == tg.platform \in {"web", "macos", "windows", "linux"}
        mobile == tg.platform \in {"android", "ios", "mobile"}
        request == Call("variant2", "requestFullscreen", "")
        expand == Call("variant2", "expand", "")
    IN  IF ~initialized THEN [ops |-> <<>>, handlers |-> 0]
        ELSE IF mobile /\ tg.hasIsVersionAtLeast /\ isVersionAtLeast(MinFullscreenVersion)
        THEN (IF ~tg.hasRequestFullscreen
              THEN [ops |-> <<expand>>, handlers |-> 0]
              ELSE IF throws \/ ~tg.hasOnEvent
              THEN [ops |-> <<request, expand>>, handlers |-> 0]
              ELSE [ops |-> <<request,
                              Call("variant2", "onEvent", "fullscreenChanged"),
                              Call("variant2", "onEvent", "fullscreenFailed")>>,
                    handlers |-> 1])
        ELSE [ops |-> <<expand>>, handlers |-> 0]

\* new TelegramWebApp() of variant 2 inside a host, part_001 lines 413-440:
\* as in variant 1, setOptimalViewportMode() runs before isInitialized is set.
V2Launch ==
    /\ pc = "start"
    /\ tg.present
    /\ impl' = "variant2"
    /\ pc' = "running"
    /\ webApp' = "tg"
    /\ LET r == v2SetOptimalViewportMode(isInitialized, FALSE)
       IN  /\ log' = Append(log, Call("variant2", "ready", "")) \o r.ops
           /\ v1FailHandlers' = v1FailHandlers + r.handlers
    /\ isInitialized' = TRUE
    /\ UNCHANGED <<tg, failEmitted,
                   isFullscreen, listeners, fellBack, timer, uncaught, reportedActive,
                   reportedInTime, droppedAfter, failSeen, requestThrew, hostEvents,
                   manualOps>>
    /\ UNCHANGED <<userAgent, innerWidth, appVars>>

\* setOptimalViewportMode() of variant 2 called again on the constructed object.
V2SetOptimalViewportMode ==
    /\ pc = "running"
    /\ impl = "variant2"
    /\ manualOps < MaxManual
    /\ manualOps' = manualOps + 1
    /\ \E throws \in BOOLEAN :
          LET r == v2SetOptimalViewportMode(isInitialized, throws)
          IN  /\ log' = log \o r.ops
              /\ v1FailHandlers' = v1FailHandlers + r.handlers
    /\ UNCHANGED <<tg, failEmitted,
                   isFullscreen, listeners, pc, webApp, isInitialized, fellBack, timer,
                   uncaught, reportedActive, reportedInTime, droppedAfter, failSeen,
                   requestThrew, hostEvents>>
    /\ UNCHANGED <<impl, userAgent, innerWidth, appVars>>

\* The host emits fullscreenFailed: every handler variant 2 registered calls
\* expand(), part_001 lines 626-629.
V2HostFullscreenFailed ==
    /\ pc = "running"
    /\ impl = "variant2"
    /\ v1FailHandlers > 0
    /\ hostEvents < MaxEvents
    /\ hostEvents' = hostEvents + 1
    /\ log' = log \o [i \in 1..v1FailHandlers |-> Call("variant2", "expand", "")]
    /\ UNCHANGED <<tg, failEmitted,
                   isFullscreen, listeners, pc, webApp, isInitialized, fellBack, timer,
                   uncaught, reportedActive, reportedInTime, droppedAfter, failSeen,
                   requestThrew, manualOps>>
    /\ UNCHANGED <<impl, v1FailHandlers, userAgent, innerWidth, appVars>>

VariantNext ==
    \/ LaunchNoHost
    \/ LaunchInHost
    \/ V1Launch
    \/ V1SetOptimalViewportMode
    \/ V1HostFullscreenFailed
    \/ V2Launch
    \/ V2SetOptimalViewportMode
    \/ V2HostFullscreenFailed

VariantSpec == VariantInit /\ [][VariantNext]_vars

-----------------------------------------------------------------------------
(* Vocabulary of the properties *)

\* The constructor has run inside a host.
Launched == pc = "running" /\ tg.present

\* Adapter calls made by the automatic negotiation (setOptimalViewportMode and
\* the closures it created).
ExpandCalls  == Calls("launch", "expand")
RequestCalls == Calls("launch", "requestFullscreen")
ArmedListeners == Calls("launch", "onEvent")

HostIsDesktop == tg.platform \in {"web", "macos", "windows", "linux"}

\* The capability check: version at least 8.0 and requestFullscreen callable.
Capability ==
    /\ tg.hasIsVersionAtLeast
    /\ ~VersionLess(tg.version, <<8, 0>>)
    /\ tg.hasRequestFullscreen

\* The negotiation has settled: expand() was called, or the safety timer fired
\* and found the host in fullscreen.
Settled == ExpandCalls > 0 \/ timer = "firedFullscreen"

TimerFired == timer \in {"firedFullscreen", "firedNotFullscreen"}

\* What the event handlers and the timer callback can change.
negotiation == <<fellBack, listeners, timer, log, webApp, isInitialized, uncaught>>

-----------------------------------------------------------------------------
(* Properties *)

\* C1: every launch inside a host eventually settles: expand() has been called,
\* or the safety timer fired while the host reported isFullscreen = TRUE.
\* Checked under LiveSpec (an armed timer eventually fires).
C1_EventuallySettles == Launched ~> Settled

\* C1 witness: fullscreen was requested, the host stayed silent, the timer
\* fired and the launch settled through the fallback.
C1_Witness ==
    /\ RequestCalls = 1 /\ ~requestThrew /\ ~failSeen /\ hostEvents = 0
    /\ timer = "firedNotFullscreen" /\ ExpandCalls = 1

\* C2: on a desktop host platform the automatic negotiation never calls
\* requestFullscreen and arms no listener and no timer, whatever the version
\* and whether or not the fullscreen operation exists.
C2_DesktopNeverRequests ==
    (Launched /\ HostIsDesktop) =>
        /\ RequestCalls = 0
        /\ ArmedListeners = 0
        /\ listeners = {}
        /\ timer = "unarmed"

\* C2 witness: a launched desktop host that has the full capability.
C2_Witness == Launched /\ HostIsDesktop /\ Capability /\ ExpandCalls = 1

\* C3: when the capability check is false the automatic negotiation never calls
\* requestFullscreen; it calls expand() and no error surfaces.
C3_NoCapabilityNoRequest ==
    (Launched /\ ~Capability) =>
        /\ RequestCalls = 0
        /\ ExpandCalls = 1
        /\ uncaught = {}

\* C3 witness: a mobile host below 8.0 with requestFullscreen present, some host
\* events later.
C3_Witness ==
    /\ Launched /\ tg.platform = "android" /\ tg.hasIsVersionAtLeast
    /\ tg.hasRequestFullscreen /\ VersionLess(tg.version, <<8, 0>>)
    /\ ExpandCalls = 1 /\ hostEvents > 0

\* C4 (as stated): once the negotiation has settled, as fullscreen after the
\* host reported fullscreen active or as expanded after expand(), a delivery of
\* fullscreenChanged or fullscreenFailed changes nothing and calls nothing.
C4_SettledIgnoresEvents ==
    [][ (((RequestCalls > 0 /\ reportedActive) \/ ExpandCalls > 0)
           /\ (HostFullscreenFailed \/ HostFullscreenChanged))
        => UNCHANGED negotiation ]_vars

\* C5: when a fullscreenFailed event was delivered and the safety timer fired
\* with isFullscreen false, in either order, expand() was called exactly once.
C5_FailAndTimerExpandOnce ==
    (failSeen /\ timer = "firedNotFullscreen") => ExpandCalls = 1

\* C5 witness: both triggers have happened after a request that returned.
C5_Witness ==
    /\ RequestCalls = 1 /\ ~requestThrew /\ failSeen /\ hostEvents > 0
    /\ timer = "firedNotFullscreen" /\ ExpandCalls = 1

\* C6 (as stated): once the host has reported fullscreen active after the
\* launch request, the safety timer firing later never calls expand() and
\* changes nothing, whatever isFullscreen is at that moment.
C6_ReportedFullscreenStays ==
    [][ (reportedInTime /\ TimerFire) => UNCHANGED <<fellBack, listeners, log>> ]_vars

\* C7 (as stated): a synchronous raise of requestFullscreen is caught, expand()
\* is called exactly once and both listeners are unsubscribed.
C7_ThrowUnsubscribesAll ==
    requestThrew =>
        /\ "launch" \notin uncaught
        /\ ExpandCalls = 1
        /\ listeners = {}

\* The outcome of a fallback: expand() called exactly once, the guard set, and
\* both listeners unsubscribed when the adapter has an offEvent operation.
FallbackOutcome ==
    /\ ExpandCalls = 1
    /\ fellBack
    /\ tg.hasOffEvent => listeners = {}

\* C7 (amended): a synchronous raise of requestFullscreen is caught, no timer is
\* armed, and the outcome is that of a fullscreenFailed event: expand() is
\* called exactly once and the listeners are unsubscribed if the adapter
\* provides offEvent.
C7_ThrowFallsBack ==
    /\ requestThrew => ("launch" \notin uncaught /\ timer = "unarmed" /\ FallbackOutcome)
    /\ failSeen => FallbackOutcome

\* C7 witness: the request raised, later events found the guard set.
C7_Witness ==
    /\ requestThrew /\ RequestCalls = 1 /\ ExpandCalls = 1 /\ tg.hasOffEvent
    /\ listeners = {} /\ hostEvents > 0

\* C8: after a request, if the host emitted no event and isFullscreen is false,
\* a fired safety timer has called expand(); silence is never taken as
\* fullscreen granted.
C8_SilenceFallsBack ==
    (RequestCalls = 1 /\ TimerFired /\ hostEvents = 0 /\ ~failSeen /\ ~isFullscreen) =>
        /\ timer = "firedNotFullscreen"
        /\ ExpandCalls = 1
        /\ fellBack

\* C8 witness: silent host, timer fired, expand() called.
C8_Witness ==
    /\ RequestCalls = 1 /\ TimerFired /\ hostEvents = 0 /\ ~failSeen /\ ~isFullscreen
    /\ ExpandCalls = 1 /\ tg.platform = "ios"

\* C9: on android or ios with version at least 8.0 and the fullscreen operation
\* present the launch issues requestFullscreen; if the host reported fullscreen
\* active while the timer was pending, kept isFullscreen true and no
\* fullscreenFailed was delivered, expand() is never called.
C9_MobileFullscreenNoExpand ==
    (Launched /\ tg.platform \in {"android", "ios"} /\ Capability) =>
        /\ RequestCalls = 1
        /\ (reportedInTime /\ ~droppedAfter /\ ~failSeen) => ExpandCalls = 0

\* C9 witness: the host reported fullscreen in time and the timer then fired.
C9_Witness ==
    /\ Launched /\ tg.platform \in {"android", "ios"} /\ Capability
    /\ reportedInTime /\ ~droppedAfter /\ ~failSeen
    /\ timer = "firedFullscreen" /\ ExpandCalls = 0

\* C10: on every launch path that does not request fullscreen, expand() is
\* called exactly once, inside setOptimalViewportMode (right after ready()),
\* no request is ever issued and no listener or timer is armed.
C10_NoRequestPathExpandsOnce ==
    /\ (Launched /\ (HostIsDesktop \/ ~Capability)) => RequestCalls = 0
    /\ (Launched /\ RequestCalls = 0) =>
          /\ ExpandCalls = 1
          /\ Len(log) >= 2
          /\ log[1] = Call("launch", "ready", "")
          /\ log[2] = Call("launch", "expand", "")
          /\ ArmedListeners = 0
          /\ listeners = {}
          /\ timer = "unarmed"

\* C10 witness: a non-desktop host without the capability, after host events.
C10_Witness ==
    /\ Launched /\ ~HostIsDesktop /\ ~Capability /\ tg.hasOnEvent
    /\ ExpandCalls = 1 /\ hostEvents > 0

-----------------------------------------------------------------------------
(* Properties, continued *)

HostIsMobile == tg.platform \in {"android", "ios", "mobile"}

ManualRequests == Calls("manual", "requestFullscreen")

\* Position of the first call of an operation by the negotiation, 0 if none.
FirstCall(op, arg) ==
    LET hits == {i \in 1..Len(log) : log[i] = Call("launch", op, arg)}
    IN  IF hits = {} THEN 0 ELSE CHOOSE i \in hits : \A j \in hits : i <= j

\* C11 (as stated): on every host platform that is not desktop, mobile or
\* unknown, a capable host gets a requestFullscreen, both listeners (as far as
\* the adapter has onEvent) and the safety timer (once the request returned).
C11_NonDesktopCapableRequests ==
    (Launched /\ ~HostIsDesktop /\ Capability) =>
        /\ RequestCalls = 1
        /\ ArmedListeners = (IF tg.hasOnEvent THEN 2 ELSE 0)
        /\ (timer = "unarmed") <=> requestThrew

\* C11 (amended): on a mobile platform (android, ios, mobile) a capable host
\* gets exactly one requestFullscreen, preceded by the subscription of both
\* handlers when the adapter has onEvent, and the safety timer is armed exactly
\* when the request returned without raising; on any other non-desktop
\* platform no request is issued and expand() is called.
C11_MobileCapableRequests ==
    /\ (Launched /\ HostIsMobile /\ Capability) =>
          /\ RequestCalls = 1
          /\ ArmedListeners = (IF tg.hasOnEvent THEN 2 ELSE 0)
          /\ tg.hasOnEvent =>
                /\ FirstCall("onEvent", "fullscreenFailed") > 0
                /\ FirstCall("onEvent", "fullscreenChanged") > 0
          /\ (timer = "unarmed") <=> requestThrew
    /\ (Launched /\ ~HostIsDesktop /\ ~HostIsMobile) =>
          /\ RequestCalls = 0
          /\ ExpandCalls = 1
          /\ timer = "unarmed"

\* C11 witness: an ios host with the capability, request issued, timer armed.
C11_Witness ==
    /\ Launched /\ tg.platform = "ios" /\ Capability /\ tg.hasOnEvent
    /\ RequestCalls = 1 /\ timer = "armed"
    /\ listeners = {"fullscreenFailed", "fullscreenChanged"}

\* C12 (as stated): isFullscreenAvailable, supportsFullscreen and (where the
\* launch gets to evaluate it, past the desktop return) canFullscreen are all
\* true exactly when the host is at least 8.0 and requestFullscreen is callable.
C12_AllThreeGatesAgree ==
    Launched =>
        /\ isFullscreenAvailable.value <=> Capability
        /\ supportsFullscreen <=> Capability
        /\ ~HostIsDesktop => (canFullscreen <=> Capability)

\* C12 (amended): isFullscreenAvailable and supportsFullscreen are true exactly
\* when both conditions hold; canFullscreen is true exactly when both hold and
\* the host platform is a mobile one.
C12_CapabilityGates ==
    Launched =>
        /\ ~isFullscreenAvailable.threw
        /\ isFullscreenAvailable.value <=> Capability
        /\ supportsFullscreen <=> Capability
        /\ canFullscreen <=> (Capability /\ HostIsMobile)

\* C12 witness: one condition alone (the operation is there, the version is
\* too old) and the probe says no.
C12_Witness ==
    /\ Launched /\ tg.hasRequestFullscreen /\ tg.hasIsVersionAtLeast
    /\ VersionLess(tg.version, <<8, 0>>)
    /\ ~isFullscreenAvailable.value /\ ~supportsFullscreen

\* C13: without a host the probe does not throw, reports no fullscreen support
\* and a null version.
C13_NoHostProbe ==
    ~tg.present =>
        /\ ~isFullscreenAvailable.threw /\ ~isFullscreenAvailable.value
        /\ ~getVersion.threw /\ getVersion.value = Null

\* C13 witness: the constructor has run without a host.
C13_Witness == pc = "running" /\ ~tg.present /\ manualOps > 0

\* C14: a host without isVersionAtLeast counts as too old: even with
\* requestFullscreen present on a mobile platform the launch does not throw,
\* never calls requestFullscreen and calls expand().
C14_AbsentVersionCheckIsFalse ==
    (Launched /\ ~tg.hasIsVersionAtLeast) =>
        /\ "launch" \notin uncaught
        /\ ~requestThrew
        /\ RequestCalls = 0
        /\ ExpandCalls = 1
        /\ ~isFullscreenAvailable.value

\* C14 witness: a mobile host of version 9.x with requestFullscreen but without
\* isVersionAtLeast.
C14_Witness ==
    /\ Launched /\ HostIsMobile /\ ~tg.hasIsVersionAtLeast /\ tg.hasRequestFullscreen
    /\ ~VersionLess(tg.version, <<9, 0>>) /\ ExpandCalls = 1 /\ hostEvents > 0

\* C15 (as stated): once fallback has been entered expand() has been issued
\* and neither handler remains subscribed.
C15_FallbackLeavesNoHandler ==
    fellBack => (ExpandCalls >= 1 /\ listeners = {})

\* C15 (amended): fallback calls expand() and unsubscribes in the same step:
\* whenever fallback has been entered expand() has been issued exactly once,
\* and, when the adapter has offEvent, offEvent was called for both handlers
\* right after it and neither handler remains subscribed.
C15_FallbackExpandsAndUnsubscribes ==
    /\ fellBack <=> (RequestCalls + ArmedListeners > 0 /\ ExpandCalls >= 1)
    /\ fellBack =>
          /\ ExpandCalls = 1
          /\ tg.hasOffEvent =>
                LET e == FirstCall("expand", "")
                IN  /\ listeners = {}
                    /\ Len(log) >= e + 2
                    /\ log[e + 1] = Call("launch", "offEvent", "fullscreenFailed")
                    /\ log[e + 2] = Call("launch", "offEvent", "fullscreenChanged")

\* C15 witness: the timer was the first trigger, on an adapter with offEvent.
C15_Witness ==
    /\ fellBack /\ ~failSeen /\ ~requestThrew /\ timer = "firedNotFullscreen"
    /\ tg.hasOnEvent /\ tg.hasOffEvent /\ listeners = {}

\* C16: whatever triggers occur and in whatever order, the negotiation calls
\* expand() at most once, also when the handlers stay subscribed.
C16_ExpandAtMostOnce == ExpandCalls <= 1

\* C16 witness: two triggers (a failure event and the timer) on an adapter
\* without offEvent, handlers still subscribed.
C16_Witness ==
    /\ tg.hasOnEvent /\ ~tg.hasOffEvent /\ listeners # {}
    /\ failSeen /\ timer = "firedNotFullscreen" /\ hostEvents >= 2
    /\ ExpandCalls = 1

\* C17 (as stated): a manual request that calls adapter.requestFullscreen also
\* subscribes a fullscreenFailed handler.
C17_ManualArmsFailListener ==
    ManualRequests > 0 => Calls("manual", "onEvent") > 0

\* C18 (as stated): a manual request never lets an error reach its caller.
C18_ManualRequestCatches ==
    (Launched /\ ManualRequests > 0) => "manual" \notin uncaught

\* C19: the negotiation calls requestFullscreen at most once and never after
\* it has called expand().
C19_NoRetry ==
    /\ RequestCalls <= 1
    /\ \A i, j \in 1..Len(log) :
          (i < j /\ log[i] = Call("launch", "expand", ""))
             => log[j] # Call("launch", "requestFullscreen", "")

\* C19 witness: fallback has happened and both later triggers were delivered.
C19_Witness ==
    /\ fellBack /\ RequestCalls = 1 /\ failSeen /\ timer = "firedNotFullscreen"
    /\ hostEvents >= 2

\* C20: without a host the constructor does not throw and makes no adapter
\* call, no listener and no timer exist and isInitialized stays false.
C20_NoHostNoNegotiation ==
    ~tg.present =>
        /\ "launch" \notin uncaught
        /\ log = <<>>
        /\ listeners = {}
        /\ timer = "unarmed"
        /\ ~fellBack
        /\ webApp = "null"
        /\ ~isInitialized

\* C20 witness: the constructor has returned without a host.
C20_Witness == pc = "running" /\ ~tg.present /\ manualOps = 0


-----------------------------------------------------------------------------
(* Properties of the launch order, the page classification and the variants *)

\* The members of class TelegramWebApp, telegram.js lines 5-345.
Members ==
    {"constructor", "init", "setupTheme", "getAuthHeaders", "getUserInfo", "getInitData",
     "isReady", "hapticFeedback", "showMainButton", "hideMainButton", "showBackButton",
     "hideBackButton", "showAlert", "showConfirm", "showPopup", "isMobileDevice",
     "isDesktopDevice", "setOptimalViewportMode", "close", "expand", "requestFullscreen",
     "requestFullsize", "isFullscreenAvailable", "isFullscreen", "getVersion",
     "getPlatform", "getColorScheme", "getViewportHeight", "getViewportStableHeight",
     "isExpanded"}

ViewportOps == {"expand", "requestFullscreen"}

ReadyCalls == Cardinality({i \in 1..Len(log) : log[i].op = "ready"})

\* C21: in a launch inside a host ready() is called exactly once, and every
\* expand() or requestFullscreen() of the adapter, by the negotiation or by a
\* manual wrapper, comes after it.
C21_ReadyFirst ==
    Launched =>
        /\ ReadyCalls = 1
        /\ \A i \in 1..Len(log) :
              log[i].op \in ViewportOps => \E j \in 1..(i - 1) : log[j].op = "ready"

C21_Witness ==
    /\ Launched
    /\ ReadyCalls = 1
    /\ RequestCalls = 1
    /\ Calls("manual", "expand") = 1

\* C22 (as stated): once the negotiation has settled the class has notified
\* onSettled and answers getSettledMode().
C22_SettledIsNotified ==
    (Launched /\ Settled) => {"onSettled", "getSettledMode"} \subseteq Members

\* The signals of the page, in the words of the classification rules.
HostPlatformTag == tgApp.platform

MobileKeyword == \E i \in 1..Len(userAgent) : userAgent[i] \in {"Android", "iPhone", "iPad"}

TabletPattern ==
    \E i \in 1..Len(userAgent) :
        \/ userAgent[i] = "iPad"
        \/ userAgent[i] = "Android" /\ ~\E j \in (i + 1)..Len(userAgent) : userAgent[j] = "Mobile"

\* The App is constructed and no scheduled detection is pending.
AppStable == appPc # "start" /\ orientationTimers = 0

\* C23: with no host-reported platform the device is mobile exactly when the
\* user agent has a mobile keyword or the viewport is at most 768 wide.
C23_MobileSignal ==
    (AppStable /\ HostPlatformTag = "") =>
        (deviceType = "mobile" <=> (MobileKeyword \/ innerWidth <= MobileBreakpoint))

C23_Witness ==
    /\ AppStable
    /\ HostPlatformTag = ""
    /\ innerWidth = MobileBreakpoint
    /\ ~MobileKeyword
    /\ deviceType = "mobile"

\* C24 (as stated): with no host-reported platform a tablet user agent on a
\* viewport wider than 768 is classified as tablet.
C24_TabletPatternIsTablet ==
    (AppStable /\ HostPlatformTag = "" /\ TabletPattern /\ innerWidth > MobileBreakpoint)
        => deviceType = "tablet"

\* C25: a host platform of ios or android gives mobile and a host platform of
\* web gives desktop, for every user agent and viewport width.
C25_HostOverridesDevice ==
    AppStable =>
        /\ HostPlatformTag \in {"ios", "android"} => deviceType = "mobile"
        /\ HostPlatformTag = "web" => deviceType = "desktop"

C25_Witness ==
    /\ AppStable
    /\ HostPlatformTag = "web"
    /\ MobileKeyword
    /\ innerWidth <= MobileBreakpoint
    /\ deviceType = "desktop"

\* The platform the user agent stands for, "" if none.
UAPlatform ==
    IF \E i \in 1..Len(userAgent) : userAgent[i] \in {"iPhone", "iPad"} THEN "ios"
    ELSE IF \E i \in 1..Len(userAgent) : userAgent[i] = "Android" THEN "android"
    ELSE IF \E i \in 1..Len(userAgent) : userAgent[i] = "Macintosh" THEN "macos"
    ELSE IF \E i \in 1..Len(userAgent) : userAgent[i] = "Windows" THEN "windows"
    ELSE IF \E i \in 1..Len(userAgent) : userAgent[i] = "Linux" THEN "linux"
    ELSE ""

\* C26: the platform tag is the host-reported platform whenever there is one,
\* else what the user agent stands for, else 'unknown'.
C26_HostPlatformFirst ==
    appPc # "start" =>
        platform = IF HostPlatformTag # "" THEN HostPlatformTag
                   ELSE IF UAPlatform # "" THEN UAPlatform
                   ELSE "unknown"

C26_Witness ==
    /\ appPc # "start"
    /\ HostPlatformTag = "web"
    /\ UAPlatform = "ios"
    /\ platform = "web"

\* The device class the current signals stand for.
Classified ==
    IF HostPlatformTag \in {"ios", "android"} THEN "mobile"
    ELSE IF HostPlatformTag = "web" THEN "desktop"
    ELSE IF MobileKeyword \/ innerWidth <= MobileBreakpoint THEN "mobile"
    ELSE IF TabletPattern THEN "tablet"
    ELSE "desktop"

\* C27: after construction and after every resize or orientation change the
\* device class is one of mobile, tablet, desktop, it is desktop when no signal
\* fires and no host override applies, and it is determined by the current
\* viewport width, user agent and host platform alone.
C27_ClassifyIsPure ==
    AppStable =>
        /\ deviceType \in {"mobile", "tablet", "desktop"}
        /\ (/\ ~MobileKeyword
            /\ innerWidth > MobileBreakpoint
            /\ ~TabletPattern
            /\ HostPlatformTag \notin {"ios", "android"}) => deviceType = "desktop"
        /\ deviceType = Classified

C27_Witness ==
    /\ AppStable
    /\ HostPlatformTag = "macos"
    /\ ~MobileKeyword
    /\ ~TabletPattern
    /\ innerWidth > MobileBreakpoint
    /\ deviceType = "desktop"

\* C28 (as stated): variant 1 of setOptimalViewportMode never calls
\* requestFullscreen on a desktop host platform.
C28_Variant1DesktopNeverRequests ==
    (impl = "variant1" /\ HostIsDesktop) => Calls("variant1", "requestFullscreen") = 0

NotInHost == ~(tgApp.present /\ tgApp.isInTelegram)

\* C29: outside the host the App makes no /user request, shows the error state
\* and lets no exception escape.
C29_OutsideHostShowsError ==
    (appPc # "start" /\ NotInHost) =>
        /\ fetches = 0
        /\ errorShown
        /\ ~authShown
        /\ ~appUncaught

C29_Witness ==
    /\ appPc = "done"
    /\ tgApp.present
    /\ ~tgApp.isInTelegram
    /\ errorShown
    /\ fetches = 0

VersionOK == tg.hasIsVersionAtLeast /\ ~VersionLess(tg.version, <<8, 0>>)

\* The adapter calls a launch of telegram.js makes before it returns, from the
\* host platform, the version check and the presence of requestFullscreen (and
\* of onEvent, for the subscriptions).
LaunchDecision ==
    IF HostIsDesktop \/ ~(HostIsMobile /\ VersionOK /\ tg.hasRequestFullscreen)
    THEN <<"ready", "expand">>
    ELSE <<"ready">>
         \o (IF tg.hasOnEvent THEN <<"onEvent", "onEvent">> ELSE <<>>)
         \o <<"requestFullscreen">>

LaunchOps == [i \in 1..Len(LaunchDecision) |-> IF i <= Len(log) THEN log[i].op ELSE ""]

\* C30: the calls a launch of telegram.js makes are the same for every user
\* agent and viewport width: they follow from the host platform, the version
\* check and the presence of requestFullscreen.
C30_LaunchIgnoresPage ==
    (impl = "current" /\ Launched) => LaunchOps = LaunchDecision

C30_Witness ==
    /\ impl = "current"
    /\ Launched
    /\ \E i \in 1..Len(userAgent) : userAgent[i] = "iPhone"
    /\ innerWidth <= MobileBreakpoint
    /\ tg.platform = "unknown"
    /\ VersionOK
    /\ tg.hasRequestFullscreen
    /\ ExpandCalls = 1
    /\ RequestCalls = 0

-----------------------------------------------------------------------------
(* Properties of the subscription order, the manual wrappers, the older
   variants and authentication *)

\* C31 (as stated): whenever the launch requests fullscreen, both handlers
\* were subscribed before the request call, a failure emitted while the call
\* runs reaches onFail and ends in expand(), and the timer is armed only after
\* a request that returned.
C31_HandlersBeforeRequest ==
    (Launched /\ RequestCalls > 0) =>
        /\ 0 < FirstCall("onEvent", "fullscreenFailed")
        /\ FirstCall("onEvent", "fullscreenFailed") < FirstCall("requestFullscreen", "")
        /\ 0 < FirstCall("onEvent", "fullscreenChanged")
        /\ FirstCall("onEvent", "fullscreenChanged") < FirstCall("requestFullscreen", "")
        /\ failEmitted => (failSeen /\ ExpandCalls = 1)
        /\ timer # "unarmed" => ~requestThrew

\* C31: on an adapter that provides onEvent, both handlers are subscribed
\* before the request call and a failure emitted while the call runs reaches
\* onFail and ends in expand(); on every adapter the timer is armed only after
\* a request that returned without throwing.
C31_HandlersBeforeRequestIfOnEvent ==
    /\ (Launched /\ RequestCalls > 0 /\ tg.hasOnEvent) =>
          /\ 0 < FirstCall("onEvent", "fullscreenFailed")
          /\ FirstCall("onEvent", "fullscreenFailed") < FirstCall("requestFullscreen", "")
          /\ 0 < FirstCall("onEvent", "fullscreenChanged")
          /\ FirstCall("onEvent", "fullscreenChanged") < FirstCall("requestFullscreen", "")
          /\ failEmitted => (failSeen /\ ExpandCalls = 1)
    /\ timer # "unarmed" => (RequestCalls = 1 /\ ~requestThrew)
    /\ requestThrew => timer = "unarmed"

C31_Witness ==
    /\ Launched
    /\ tg.hasOnEvent
    /\ failEmitted
    /\ failSeen
    /\ ExpandCalls = 1
    /\ ~requestThrew
    /\ timer = "armed"

\* C32: a fullscreenChanged event changes nothing of the negotiation (no
\* adapter call, no unsubscription, timer untouched), and a timer that fires
\* falls back exactly when isFullscreen is false at that moment.
C32_ChangedIsInert ==
    [][ /\ HostFullscreenChanged => UNCHANGED negotiation
        /\ (timer = "armed" /\ timer' # "armed") =>
              /\ timer' = IF isFullscreen THEN "firedFullscreen" ELSE "firedNotFullscreen"
              /\ ExpandCalls' = ExpandCalls + (IF ~isFullscreen /\ ~fellBack THEN 1 ELSE 0)
      ]_vars

C32_Witness ==
    /\ Launched
    /\ RequestCalls = 1
    /\ reportedInTime
    /\ timer = "firedFullscreen"
    /\ listeners = {"fullscreenFailed", "fullscreenChanged"}
    /\ ExpandCalls = 0
    /\ hostEvents > 1

\* C33 (as stated): without a host no public viewport wrapper makes an adapter
\* call or raises.
C33_NoHostWrappersAreNoOps ==
    (pc = "running" /\ ~tg.present) => (log = <<>> /\ "manual" \notin uncaught)

\* C34: an initialized manual requestFullscreen() makes exactly one adapter
\* call: requestFullscreen when the probe isFullscreenAvailable() is true,
\* expand otherwise, whatever the host platform.
C34_ManualFollowsProbe ==
    [][ (ManualRequestFullscreen /\ isInitialized) =>
            log' = Append(log, Call("manual",
                                    IF isFullscreenAvailable.value
                                    THEN "requestFullscreen" ELSE "expand",
                                    "")) ]_vars

\* C34 witness: a manual request went through on a desktop host.
C34_Witness ==
    /\ Launched
    /\ HostIsDesktop
    /\ RequestCalls = 0
    /\ ManualRequests = 1

\* The constructor has returned inside a host and nothing has happened since.
AtLaunch == pc = "running" /\ tg.present /\ manualOps = 0 /\ hostEvents = 0

ViewportCallsBy(by) == Calls(by, "expand") + Calls(by, "requestFullscreen")

C36_DesktopPlatformIsDesktop ==
    (AppStable /\ HostPlatformTag \in {"web", "macos", "windows", "linux"})
        => deviceType = "desktop"

\* C37: currentUser is set only by a successful /user response and
\* showAuthenticatedState only after it; a failed request or a response that
\* is not ok leaves currentUser null and shows the error; nothing escapes.
C37_UserOnlyAfterSuccess ==
    /\ authShown => currentUser # Null
    /\ currentUser # Null => (appPc = "done" /\ fetches > 0 /\ ~errorShown)
    /\ (appPc = "done" /\ currentUser = Null) => errorShown
    /\ ~appUncaught

C37_Witness ==
    /\ appPc = "done"
    /\ fetches = 1
    /\ currentUser = Null
    /\ errorShown
    /\ ~authShown

====
